---- MODULE Spec2Model ----
(***************************************************************************)
(* gorm-bulk-upsert: BulkUpsert splits a slice of records into chunks and  *)
(* issues one multi-row INSERT ... ON DUPLICATE KEY UPDATE per chunk.      *)
(*                                                                         *)
(* A Go string is modelled as a sequence of one-character strings, so that *)
(* sort.Strings (byte order) and gorm's snake-casing are computed and not  *)
(* assumed.  A record of the batch is [kind, type, blank, id]: the Go kind *)
(* of the value, its struct type, whether its default-valued fields are    *)
(* unset, and its position in the caller's slice (which stands for the     *)
(* caller's field values: the value of field F of record i is the token    *)
(* [kind |-> "user", id |-> i, f |-> F]).                                  *)
(***************************************************************************)
EXTENDS Integers, Sequences, FiniteSets, TLC

\* ------------------------------------------------------------ bounds
MaxObjs == 3
MaxChunk == 3
MaxClock == 1

\* ------------------------------------------------------------ strings
\* The characters of identifiers, in ASCII (byte) order.
Ascii ==
    << "0","1","2","3","4","5","6","7","8","9",
       "A","B","C","D","E","F","G","H","I","J","K","L","M",
       "N","O","P","Q","R","S","T","U","V","W","X","Y","Z",
       "_",
       "a","b","c","d","e","f","g","h","i","j","k","l","m",
       "n","o","p","q","r","s","t","u","v","w","x","y","z" >>

Chars == { Ascii[i] : i \in 1..Len(Ascii) }

Ord == [ c \in Chars |-> CHOOSE i \in 1..Len(Ascii) : Ascii[i] = c ]

IsUpper(c) == Ord[c] >= Ord["A"] /\ Ord[c] <= Ord["Z"]

IsDigit(c) == Ord[c] >= Ord["0"] /\ Ord[c] <= Ord["9"]

ToLowerChar(c) == IF IsUpper(c) THEN Ascii[Ord[c] - Ord["A"] + Ord["a"]] ELSE c

ToLower(s) == [ i \in 1..Len(s) |-> ToLowerChar(s[i]) ]

\* Go's string order (bytewise), as sort.Strings uses it.
RECURSIVE StrLess(_, _)
StrLess(a, b) ==
    IF b = << >> THEN FALSE
    ELSE IF a = << >> THEN TRUE
    ELSE IF Head(a) # Head(b) THEN Ord[Head(a)] < Ord[Head(b)]
    ELSE StrLess(Tail(a), Tail(b))

\* gorm.ToColumnName: the default naming strategy's snake-casing.  The loop
\* runs over every character but the last; st is [buf, lastCase, currCase].
\* (The strategy first rewrites common initialisms such as "ID"; no string it
\* is applied to here, a DBName, holds one.)
RECURSIVE snakeLoop(_, _, _)
snakeLoop(value, i, st) ==
    IF i > Len(value) - 1 THEN st
    ELSE
      LET v == value[i]
          nextCase == IsUpper(value[i + 1])
          nextNumber == IsDigit(value[i + 1])
          buf ==
            IF i > 1 THEN
              IF st.currCase THEN
                IF st.lastCase /\ (nextCase \/ nextNumber)
                  THEN Append(st.buf, v)
                  ELSE IF value[i - 1] # "_" /\ value[i + 1] # "_"
                         THEN st.buf \o << "_", v >>
                         ELSE Append(st.buf, v)
              ELSE
                IF i = Len(value) - 1 /\ nextCase /\ ~nextNumber
                  THEN st.buf \o << v, "_" >>
                  ELSE Append(st.buf, v)
            ELSE Append(st.buf, v)
          curr == IF i > 1 THEN st.currCase ELSE TRUE
      IN snakeLoop(value, i + 1, [buf |-> buf, lastCase |-> curr, currCase |-> nextCase])

ToColumnName(name) ==
    IF name = << >> THEN << >>
    ELSE ToLower(Append(
           snakeLoop(name, 1, [buf |-> << >>, lastCase |-> FALSE, currCase |-> FALSE]).buf,
           name[Len(name)]))

\* ------------------------------------------------------------ field metadata
\* What gorm's Scope.Fields() tells of one struct field.
Field(name, db) ==
    [ Name |-> name, DBName |-> db, IsPrimaryKey |-> FALSE, Relationship |-> FALSE,
      HasForeignKey |-> FALSE, IsIgnored |-> FALSE, IsUnique |-> FALSE,
      HasUniqueIndex |-> FALSE, HasDefaultValue |-> FALSE, HasDefaultTag |-> FALSE,
      DefaultTag |-> << >> ]

nID == << "I","D" >>
nName == << "N","a","m","e" >>
nEmail == << "E","m","a","i","l" >>
nCreatedAt == << "C","r","e","a","t","e","d","A","t" >>
nUpdatedAt == << "U","p","d","a","t","e","d","A","t" >>
nURL == << "U","R","L" >>
nUid == << "U","i","d" >>
nOwner == << "O","w","n","e","r" >>
nSecret == << "S","e","c","r","e","t" >>
nState == << "S","t","a","t","e" >>
nSeq == << "S","e","q" >>
nKey == << "K","e","y" >>
nMyCol == << "M","y","C","o","l" >>

\* type fakeTable struct { ID int; Name, Email string; CreatedAt, UpdatedAt time.Time }
fakeTable ==
    << [Field(nID, << "i","d" >>) EXCEPT !.IsPrimaryKey = TRUE],
       Field(nName, << "n","a","m","e" >>),
       Field(nEmail, << "e","m","a","i","l" >>),
       Field(nCreatedAt, << "c","r","e","a","t","e","d","_","a","t" >>),
       Field(nUpdatedAt, << "u","p","d","a","t","e","d","_","a","t" >>) >>

\* type link struct { ID uint; URL string; Uid string (gorm:"unique_index");
\*   Owner owner (gorm:"foreignkey:OwnerID"); Secret string (gorm:"-");
\*   State string (gorm:"default:new"); Seq int (gorm:"auto_increment");
\*   UpdatedAt time.Time }
link ==
    << [Field(nID, << "i","d" >>) EXCEPT !.IsPrimaryKey = TRUE],
       Field(nURL, << "u","r","l" >>),
       [Field(nUid, << "u","i","d" >>) EXCEPT !.HasUniqueIndex = TRUE],
       [Field(nOwner, << "o","w","n","e","r" >>) EXCEPT !.Relationship = TRUE,
                                                        !.HasForeignKey = TRUE],
       [Field(nSecret, << "s","e","c","r","e","t" >>) EXCEPT !.IsIgnored = TRUE],
       [Field(nState, << "s","t","a","t","e" >>) EXCEPT !.HasDefaultValue = TRUE,
                                                        !.HasDefaultTag = TRUE,
                                                        !.DefaultTag = << "n","e","w" >>],
       [Field(nSeq, << "s","e","q" >>) EXCEPT !.HasDefaultValue = TRUE],
       Field(nUpdatedAt, << "u","p","d","a","t","e","d","_","a","t" >>) >>

\* type tagged struct { Key string (gorm:"unique"); MyCol string (gorm:"column:MyCol") }
tagged ==
    << [Field(nKey, << "k","e","y" >>) EXCEPT !.IsUnique = TRUE],
       Field(nMyCol, << "M","y","C","o","l" >>) >>

TypeNames == { "fakeTable", "link", "tagged" }

\* Scope.Fields(): the fields of the value's struct type, in declaration order.
Fields(typ) ==
    CASE typ = "fakeTable" -> fakeTable
      [] typ = "link" -> link
      [] typ = "tagged" -> tagged
      [] OTHER -> << >>

\* Scope.QuotedTableName(): gorm's table name of the struct type (its quotes left out).
QuotedTableName(typ) ==
    CASE typ = "fakeTable" -> "fake_tables"
      [] typ = "link" -> "links"
      [] typ = "tagged" -> "taggeds"
      [] OTHER -> ""

\* ------------------------------------------------------------ values
UserValue(obj, name) == [kind |-> "user", id |-> obj.id, f |-> name]
NowValue(now) == [kind |-> "now", id |-> now, f |-> << >>]
DefaultValue(lit) == [kind |-> "default", id |-> 0, f |-> lit]

\* field.Field.Interface(): the value the caller's record holds in the field.
FieldInterface(obj, field) == UserValue(obj, field.Name)

\* field.IsBlank: the record's value of the field is the zero value.
IsBlank(obj, field) == obj.blank

ErrNil == "nil"
ErrNotStruct == "value must be kind of Struct"
ErrInconsistent == "attribute sizes are inconsistent"
DbErrors == { "Error 1062: Duplicate entry", "driver: bad connection" }

\* ------------------------------------------------------------ helpers
containString(s, value) == \E i \in 1..Len(s) : s[i] = value

RECURSIVE sortedSet(_)
sortedSet(keys) ==
    IF keys = {} THEN << >>
    ELSE LET m == CHOOSE k \in keys : \A o \in keys \ {k} : StrLess(k, o)
         IN << m >> \o sortedSet(keys \ {m})

sortedKeys(val) == sortedSet(DOMAIN val)

RECURSIVE splitLoop(_, _, _)
splitLoop(objArr, size, chunkSet) ==
    IF Len(objArr) > size
      THEN splitLoop(SubSeq(objArr, size + 1, Len(objArr)), size,
                     Append(chunkSet, SubSeq(objArr, 1, size)))
      ELSE IF Len(objArr) > 0 THEN Append(chunkSet, objArr) ELSE chunkSet

splitObjects(objArr, size) == splitLoop(objArr, size, << >>)

\* ------------------------------------------------------------ extractMapValue
\* Mutant of attrValue: the timestamp fields are treated like any other field.
attrValueNoTimestamp(obj, field, now) ==
    IF field.HasDefaultValue /\ IsBlank(obj, field) THEN
      IF field.HasDefaultTag THEN DefaultValue(field.DefaultTag)
      ELSE FieldInterface(obj, field)
    ELSE FieldInterface(obj, field)

\* The value extractMapValue stores for one field that passed its filter.
attrValue(obj, field, now) ==
    IF field.Name = nCreatedAt \/ field.Name = nUpdatedAt THEN NowValue(now)
    ELSE IF field.HasDefaultValue /\ IsBlank(obj, field) THEN
      IF field.HasDefaultTag THEN DefaultValue(field.DefaultTag)
      ELSE FieldInterface(obj, field)
    ELSE FieldInterface(obj, field)

\* Mutant of extractKeeps: excludeColumns is not consulted.
extractKeepsExcluded(field, excludeCols) ==
    /\ ~field.Relationship
    /\ ~field.HasForeignKey
    /\ ~field.IsIgnored

\* The filter of extractMapValue: the field is written to the database.
extractKeeps(field, excludeCols) ==
    /\ ~containString(excludeCols, field.Name)
    /\ ~field.Relationship
    /\ ~field.HasForeignKey
    /\ ~field.IsIgnored

\* attrs[field.DBName] = v, on a Go map.
MapPut(attrs, k, v) == [ x \in (DOMAIN attrs) \cup {k} |-> IF x = k THEN v ELSE attrs[x] ]

RECURSIVE extractLoop(_, _, _, _, _, _)
extractLoop(obj, fields, i, excludeCols, now, attrs) ==
    IF i > Len(fields) THEN attrs
    ELSE extractLoop(obj, fields, i + 1, excludeCols, now,
           IF extractKeeps(fields[i], excludeCols)
             THEN MapPut(attrs, fields[i].DBName, attrValue(obj, fields[i], now))
             ELSE attrs)

EmptyMap == [ x \in {} |-> x ]

\* Mutant of isStruct: a pointer passes as a struct.
isStructOrPointer(value) == value.kind \in { "struct", "ptr" }

\* reflect.ValueOf(value).Kind() == reflect.Struct
isStruct(value) == value.kind = "struct"

\* [attrs, err]
extractMapValue(value, excludeCols, now) ==
    IF ~isStruct(value) THEN [attrs |-> EmptyMap, err |-> ErrNotStruct]
    ELSE [attrs |-> extractLoop(value, Fields(value.type), 1, excludeCols, now, EmptyMap),
          err |-> ErrNil]

\* ------------------------------------------------------------ upsertObjSet
\* Mutant of dbColumnsOf: the keys are taken in another order than sorted.
dbColumnsOfUnsorted(firstAttrs) ==
    LET keys == sortedKeys(firstAttrs)
    IN [ j \in 1..Len(keys) |-> ToColumnName(keys[Len(keys) + 1 - j]) ]

\* dbColumns: the sorted keys of the first record's attributes, each through
\* gorm.ToColumnName.
dbColumnsOf(firstAttrs) ==
    LET keys == sortedKeys(firstAttrs)
    IN [ j \in 1..Len(keys) |-> ToColumnName(keys[j]) ]

\* The filter of the ON DUPLICATE KEY UPDATE loop.
duplicateKeeps(field, excludeCols) ==
    ~ ( \/ containString(excludeCols, field.Name)
        \/ field.Relationship
        \/ field.HasForeignKey
        \/ field.IsIgnored
        \/ field.IsPrimaryKey
        \/ field.IsUnique
        \/ field.HasUniqueIndex )

\* One fragment lhs=VALUES(rhs), both names backtick-quoted.
RECURSIVE duplicatesLoop(_, _, _, _)
duplicatesLoop(fields, i, excludeCols, duplicates) ==
    IF i > Len(fields) THEN duplicates
    ELSE duplicatesLoop(fields, i + 1, excludeCols,
           IF duplicateKeeps(fields[i], excludeCols)
             THEN Append(duplicates, [lhs |-> fields[i].DBName, rhs |-> fields[i].DBName])
             ELSE duplicates)

duplicatesOf(first, excludeCols) == duplicatesLoop(Fields(first.type), 1, excludeCols, << >>)

\* Mutant of recordVars: the values are taken in another order than that of the
\* sorted keys.
recordVarsUnsorted(objAttrs) ==
    LET keys == sortedKeys(objAttrs)
    IN [ j \in 1..Len(keys) |-> objAttrs[keys[Len(keys) + 1 - j]] ]

\* scope.SQLVars of one record: its attributes in the order of their sorted keys.
recordVars(objAttrs) ==
    LET keys == sortedKeys(objAttrs)
    IN [ j \in 1..Len(keys) |-> objAttrs[keys[j]] ]

\* "(?, ?, ...)": one "?" per attribute of the record.
valueQuery(objAttrs) == [ j \in 1..Cardinality(DOMAIN objAttrs) |-> "?" ]

\* Mutant of sizesDiffer: only a record with more attributes is refused.
sizesDifferGreater(objAttrs, attrSize) == Cardinality(DOMAIN objAttrs) > attrSize

\* len(objAttrs) != attrSize
sizesDiffer(objAttrs, attrSize) == Cardinality(DOMAIN objAttrs) # attrSize

\* The loop over the chunk's records; acc is [err, placeholders, SQLVars].
RECURSIVE objectsLoop(_, _, _, _, _, _)
objectsLoop(objs, i, excludeCols, now, attrSize, acc) ==
    IF i > Len(objs) THEN acc
    ELSE
      LET r == extractMapValue(objs[i], excludeCols, now)
      IN IF r.err # ErrNil THEN [acc EXCEPT !.err = r.err]
         ELSE IF sizesDiffer(r.attrs, attrSize)
           THEN [acc EXCEPT !.err = ErrInconsistent]
         ELSE objectsLoop(objs, i + 1, excludeCols, now, attrSize,
                [acc EXCEPT !.placeholders = Append(@, valueQuery(r.attrs)),
                            !.SQLVars = @ \o recordVars(r.attrs)])

NoStmt ==
    [table |-> "", columns |-> << >>, placeholders |-> << >>,
     onDuplicate |-> FALSE, duplicates |-> << >>, vars |-> << >>]

\* Mutant of isEmptySet: a chunk of one record is taken for empty.
isEmptySetOffByOne(objs) == Len(objs) <= 1

\* len(objects) == 0
isEmptySet(objs) == Len(objs) = 0

\* What upsertObjSet does up to its db.Exec: [err, exec, stmt].  err is the
\* error it returns without executing; exec says that it goes on to db.Exec
\* with stmt (the SQL text's parts and the bound values).
upsertObjSet(objs, excludeCols, now) ==
    IF isEmptySet(objs) THEN [err |-> ErrNil, exec |-> FALSE, stmt |-> NoStmt]
    ELSE
      LET first == extractMapValue(objs[1], excludeCols, now)
      IN IF first.err # ErrNil
           THEN [err |-> first.err, exec |-> FALSE, stmt |-> NoStmt]
           ELSE
             LET attrSize == Cardinality(DOMAIN first.attrs)
                 dbColumns == dbColumnsOf(first.attrs)
                 duplicates == duplicatesOf(objs[1], excludeCols)
                 acc == objectsLoop(objs, 1, excludeCols, now, attrSize,
                          [err |-> ErrNil, placeholders |-> << >>, SQLVars |-> << >>])
             IN IF acc.err # ErrNil
                  THEN [err |-> acc.err, exec |-> FALSE, stmt |-> NoStmt]
                  ELSE [err |-> ErrNil, exec |-> TRUE,
                        stmt |-> [table |-> QuotedTableName(objs[1].type),
                                  columns |-> dbColumns,
                                  placeholders |-> acc.placeholders,
                                  onDuplicate |-> Len(duplicates) > 0,
                                  duplicates |-> IF Len(duplicates) > 0
                                                   THEN duplicates ELSE << >>,
                                  vars |-> acc.SQLVars]]

\* ------------------------------------------------------------ inputs
StructShapes ==
    { [kind |-> "struct", type |-> t, blank |-> b] :
        t \in TypeNames, b \in BOOLEAN } \
    { [kind |-> "struct", type |-> t, blank |-> TRUE] : t \in {"fakeTable", "tagged"} }

\* Values that are no struct: a map and a pointer to a struct (any other kind
\* takes the same path through extractMapValue).
OtherShapes == { [kind |-> k, type |-> "", blank |-> FALSE] : k \in {"map", "ptr"} }

Shapes == StructShapes \cup OtherShapes

ObjectSlices ==
    UNION { { [ i \in 1..n |-> [kind |-> s[i].kind, type |-> s[i].type,
                                blank |-> s[i].blank, id |-> i] ] :
              s \in [1..n -> Shapes] } : n \in 0..MaxObjs }

ExcludeLists ==
    { << >>, << nSeq >>, << nMyCol >>, << nUpdatedAt, nEmail >> }

\* ------------------------------------------------------------ state
VARIABLES
    objects,         \* BulkUpsert's argument: the records
    chunkSize,       \* BulkUpsert's argument
    excludeColumns,  \* BulkUpsert's argument
    pc,              \* "call", "loop" (in the range loop), "done" (returned)
    chunks,          \* splitObjects(objects, chunkSize), once computed
    idx,             \* the chunk the range loop is at
    attempts,        \* the chunks upsertObjSet was called on, in order
    issued,          \* the statements handed to db.Exec, in order, with the outcome
    result,          \* BulkUpsert's return value, once returned
    clock            \* the wall clock time.Now() reads

vars == << objects, chunkSize, excludeColumns, pc, chunks, idx, attempts, issued,
           result, clock >>

Init ==
    /\ objects \in ObjectSlices
    /\ chunkSize \in 1..MaxChunk
    /\ excludeColumns \in ExcludeLists
    /\ pc = "call"
    /\ chunks = << >>
    /\ idx = 0
    /\ attempts = << >>
    /\ issued = << >>
    /\ result = "none"
    /\ clock = 0

\* BulkUpsert is entered: splitObjects is evaluated, the range loop starts.
Call ==
    /\ pc = "call"
    /\ chunks' = splitObjects(objects, chunkSize)
    /\ idx' = 1
    /\ pc' = "loop"
    /\ UNCHANGED << objects, chunkSize, excludeColumns, attempts, issued, result, clock >>

\* One iteration: upsertObjSet returns an error before db.Exec.
BuildFail ==
    /\ pc = "loop"
    /\ idx <= Len(chunks)
    /\ LET r == upsertObjSet(chunks[idx], excludeColumns, clock)
       IN /\ ~r.exec
          /\ r.err # ErrNil
          /\ result' = r.err
    /\ attempts' = Append(attempts, idx)
    /\ pc' = "done"
    /\ UNCHANGED << objects, chunkSize, excludeColumns, chunks, idx, issued, clock >>

\* One iteration: upsertObjSet returns nil, either at once (an empty chunk) or
\* after executing its statement, which the database accepts.
ExecOK ==
    /\ pc = "loop"
    /\ idx <= Len(chunks)
    /\ LET r == upsertObjSet(chunks[idx], excludeColumns, clock)
       IN /\ r.err = ErrNil
          /\ issued' = IF r.exec
                         THEN Append(issued, [chunk |-> idx, stmt |-> r.stmt,
                                              at |-> clock, err |-> ErrNil])
                         ELSE issued
    /\ attempts' = Append(attempts, idx)
    /\ idx' = idx + 1
    /\ UNCHANGED << objects, chunkSize, excludeColumns, chunks, pc, result, clock >>

\* Mutant of ExecFail: the database's error is dropped and the loop goes on.
ExecFailSwallowed ==
    /\ pc = "loop"
    /\ idx <= Len(chunks)
    /\ \E e \in DbErrors :
         LET r == upsertObjSet(chunks[idx], excludeColumns, clock)
         IN /\ r.exec
            /\ issued' = Append(issued, [chunk |-> idx, stmt |-> r.stmt, at |-> clock,
                                         err |-> e])
    /\ attempts' = Append(attempts, idx)
    /\ idx' = idx + 1
    /\ UNCHANGED << objects, chunkSize, excludeColumns, chunks, pc, result, clock >>

\* One iteration: upsertObjSet executes its statement and the database reports an error.
ExecFail ==
    /\ pc = "loop"
    /\ idx <= Len(chunks)
    /\ \E e \in DbErrors :
         LET r == upsertObjSet(chunks[idx], excludeColumns, clock)
         IN /\ r.exec
            /\ issued' = Append(issued, [chunk |-> idx, stmt |-> r.stmt, at |-> clock,
                                         err |-> e])
            /\ result' = e
    /\ attempts' = Append(attempts, idx)
    /\ pc' = "done"
    /\ UNCHANGED << objects, chunkSize, excludeColumns, chunks, idx, clock >>

\* The range loop is over: BulkUpsert returns nil.
Return ==
    /\ pc = "loop"
    /\ idx > Len(chunks)
    /\ result' = ErrNil
    /\ pc' = "done"
    /\ UNCHANGED << objects, chunkSize, excludeColumns, chunks, idx, attempts, issued, clock >>

\* Time passes while the call runs.
Tick ==
    /\ pc = "loop"
    /\ clock < MaxClock
    /\ clock' = clock + 1
    /\ UNCHANGED << objects, chunkSize, excludeColumns, pc, chunks, idx, attempts,
                    issued, result >>

Next == Call \/ BuildFail \/ ExecOK \/ ExecFail \/ Return \/ Tick

Spec == Init /\ [][Next]_vars

\* ------------------------------------------------------------ properties
Range(f) == { f[i] : i \in DOMAIN f }

Done == pc = "done"

Failed == Done /\ result # ErrNil

\* The records of the statement issued k-th.
ChunkOf(k) == chunks[issued[k].chunk]

AllStructs(objs) == \A i \in 1..Len(objs) : objs[i].kind = "struct"

\* The batch is a slice of structs of one type.
SameShape ==
    /\ AllStructs(objects)
    /\ \A i \in 1..Len(objects) : objects[i].type = objects[1].type

AllAccepted == \A k \in 1..Len(issued) : issued[k].err = ErrNil

\* The database columns a struct record is written to.
AttrKeys(obj) == { f.DBName : f \in { g \in Range(Fields(obj.type)) :
                                         extractKeeps(g, excludeColumns) } }

Ceil(n, d) == (n + d - 1) \div d

LastAttempt == attempts[Len(attempts)]

\* C1: once a chunk fails (its building, or its execution), no statement of a
\* later chunk is built or executed and BulkUpsert returns that chunk's error;
\* the statements of the chunks before it stay executed.  The chunks are
\* attempted in order, a statement that the database refused is the last one
\* issued and its error is the result, and a building error is the result with
\* no statement issued for its chunk.
C1_FailFast ==
    /\ \A a \in 1..Len(attempts) : attempts[a] = a
    /\ \A k \in 1..Len(issued) :
         /\ issued[k].chunk = k
         /\ issued[k].err # ErrNil =>
              /\ k = Len(issued)
              /\ Done
              /\ result = issued[k].err
              /\ LastAttempt = k
    /\ Failed =>
         /\ attempts # << >>
         /\ Len(issued) \in { LastAttempt - 1, LastAttempt }
         /\ Len(issued) = LastAttempt => issued[LastAttempt].err = result
         /\ Len(issued) = LastAttempt - 1 =>
              \/ /\ result = ErrNotStruct
                 /\ ~AllStructs(chunks[LastAttempt])
              \/ /\ result = ErrInconsistent
                 /\ \E i \in 1..Len(chunks[LastAttempt]) :
                      /\ AllStructs(SubSeq(chunks[LastAttempt], 1, i))
                      /\ Cardinality(AttrKeys(chunks[LastAttempt][i]))
                           # Cardinality(AttrKeys(chunks[LastAttempt][1]))
    /\ Done /\ result = ErrNil => Len(attempts) = Len(chunks)

\* A call whose second chunk fails, with a third chunk never attempted.
C1_Witness ==
    /\ Failed
    /\ Len(attempts) = 2
    /\ Len(chunks) = 3
    /\ Len(issued) >= 1
    /\ issued[1].err = ErrNil

\* The user-supplied values bound for row r of a statement name the record
\* they come from.
RowIds(st, r) ==
    LET n == Len(st.columns)
    IN { st.vars[(r - 1) * n + j].id :
           j \in { x \in 1..n : /\ (r - 1) * n + x <= Len(st.vars)
                                /\ st.vars[(r - 1) * n + x].kind = "user" } }

\* C2: for n same-shape struct records and a positive chunkSize, when the
\* database accepts every statement, the statements are issued one per chunk
\* in input order, the k-th carrying exactly the records at the positions
\* (k-1)*chunkSize+1 .. min(k*chunkSize, n) in their order, and the call
\* returns nil after exactly ceil(n / chunkSize) of them (none for n = 0).
C2_Chunking ==
    (SameShape /\ AllAccepted) =>
      /\ \A k \in 1..Len(issued) :
           LET first == (k - 1) * chunkSize + 1
               last == IF k * chunkSize < Len(objects) THEN k * chunkSize ELSE Len(objects)
               st == issued[k].stmt
           IN /\ issued[k].chunk = k
              /\ last >= first
              /\ last - first + 1 <= chunkSize
              /\ Len(st.placeholders) = last - first + 1
              /\ \A r \in 1..Len(st.placeholders) : RowIds(st, r) = { first + r - 1 }
      /\ Done =>
           /\ result = ErrNil
           /\ Len(issued) = Ceil(Len(objects), chunkSize)

\* Three records in chunks of two: two statements, then nil.
C2_Witness ==
    /\ SameShape
    /\ Done
    /\ result = ErrNil
    /\ Len(objects) = 3
    /\ chunkSize = 2
    /\ Len(issued) = 2

\* The first record that is no struct, and the chunk it falls in.
FirstNonStruct ==
    CHOOSE p \in 1..Len(objects) :
      /\ objects[p].kind # "struct"
      /\ \A q \in 1..(p - 1) : objects[q].kind = "struct"

FirstNonStructChunk == ((FirstNonStruct - 1) \div chunkSize) + 1

\* C3 as stated: a record that is no struct makes the call fail with the shape
\* error without any statement executed, wherever the record is.
C3_NoStatementAtAll ==
    ~AllStructs(objects) =>
      /\ issued = << >>
      /\ Done => result = ErrNotStruct

\* C3 as amended: no statement is executed for the chunk holding the first
\* record that is no struct, nor for a later chunk, and the call returns an
\* error; the chunks before it are executed, and unless one of them fails or a
\* record fails the attribute-size check first, the error is the shape error,
\* returned after exactly the statements of the chunks before.
C3_NoStatementForChunk ==
    ~AllStructs(objects) =>
      /\ \A k \in 1..Len(issued) : issued[k].chunk < FirstNonStructChunk
      /\ Done => result # ErrNil
      /\ (Done /\ result \notin DbErrors /\ result # ErrInconsistent) =>
           /\ result = ErrNotStruct
           /\ Len(issued) = FirstNonStructChunk - 1
      /\ (Done /\ AllAccepted
               /\ \A i \in 1..Len(objects) :
                    objects[i].kind = "struct" => objects[i].type = objects[1].type) =>
           result = ErrNotStruct

\* The shape error returned after an earlier chunk's statement was executed.
C3_Witness ==
    /\ Done
    /\ result = ErrNotStruct
    /\ Len(issued) >= 1
    /\ FirstNonStructChunk = 2

\* A chunk whose i-th record is extracted (only structs up to it) and has
\* another number of attributes than the chunk's first record.
Inconsistent(objs) ==
    \E i \in 1..Len(objs) :
      /\ AllStructs(SubSeq(objs, 1, i))
      /\ Cardinality(AttrKeys(objs[i])) # Cardinality(AttrKeys(objs[1]))

\* C4: when two records of one chunk produce attribute maps of different
\* sizes, the call fails with "attribute sizes are inconsistent" and no
\* statement is executed for that chunk.
C4_Inconsistent ==
    \A a \in 1..Len(attempts) :
      Inconsistent(chunks[attempts[a]]) =>
        /\ Done
        /\ result = ErrInconsistent
        /\ \A k \in 1..Len(issued) : issued[k].chunk # attempts[a]

\* The size check fails on the third record of a chunk whose first two agree.
C4_Witness ==
    /\ Done
    /\ result = ErrInconsistent
    /\ issued = << >>
    /\ Len(chunks[1]) = 3
    /\ AllStructs(chunks[1])
    /\ Cardinality(AttrKeys(chunks[1][2])) = Cardinality(AttrKeys(chunks[1][1]))
    /\ Cardinality(AttrKeys(chunks[1][3])) # Cardinality(AttrKeys(chunks[1][1]))

\* C5: a field whose struct field name is in excludeColumns is in no
\* statement's column list, contributes no bound value and is in no
\* statement's ON DUPLICATE KEY UPDATE clause.
C5_Excluded ==
    \A k \in 1..Len(issued) :
      LET st == issued[k].stmt
      IN /\ \A i \in 1..Len(ChunkOf(k)) :
              \A f \in Range(Fields(ChunkOf(k)[i].type)) :
                containString(excludeColumns, f.Name) =>
                  /\ f.DBName \notin Range(st.columns)
                  /\ ToColumnName(f.DBName) \notin Range(st.columns)
                  /\ \A d \in Range(st.duplicates) :
                       d.lhs # f.DBName /\ d.rhs # f.DBName
         /\ \A v \in Range(st.vars) :
              v.kind = "user" => ~containString(excludeColumns, v.f)
         /\ Len(st.vars) = Len(st.placeholders) * Len(st.columns)

\* A statement for link records with Seq excluded.
C5_Witness ==
    /\ excludeColumns = << nSeq >>
    /\ Len(issued) >= 1
    /\ issued[1].stmt.table = "links"
    /\ issued[1].stmt.onDuplicate

\* The fields of a struct type that extractMapValue keeps, and the one that is
\* written to a column.
KeptFields(typ) == { g \in Range(Fields(typ)) : extractKeeps(g, excludeColumns) }

FieldOfColumn(typ, col) == CHOOSE g \in KeptFields(typ) : ToColumnName(g.DBName) = col

\* The number of kept database names that sort before db.
Rank(typ, db) == Cardinality({ g.DBName : g \in { h \in KeptFields(typ) :
                                                   StrLess(h.DBName, db) } })

\* C6 as stated: the statements of a batch of same-shape records have one
\* column list, sorted lexicographically by logical (struct field) name.
C6_SortedByFieldName ==
    SameShape =>
      \A k \in 1..Len(issued) :
        LET cols == issued[k].stmt.columns
            typ == objects[1].type
        IN /\ cols = issued[1].stmt.columns
           /\ \A i, j \in 1..Len(cols) :
                i < j => StrLess(FieldOfColumn(typ, cols[i]).Name,
                                 FieldOfColumn(typ, cols[j]).Name)

\* C6 as amended: the statements of a batch of same-shape records have one
\* column list, which holds the kept fields' database column names (DBName,
\* each written through gorm.ToColumnName) in the lexicographic order of the
\* database column names.
C6_SortedByDBName ==
    SameShape =>
      \A k \in 1..Len(issued) :
        LET cols == issued[k].stmt.columns
            typ == objects[1].type
        IN /\ cols = issued[1].stmt.columns
           /\ Len(cols) = Cardinality({ g.DBName : g \in KeptFields(typ) })
           /\ \A g \in KeptFields(typ) :
                cols[Rank(typ, g.DBName) + 1] = ToColumnName(g.DBName)

\* Two statements for link records, whose URL and Uid sort differently by
\* field name and by column name.
C6_Witness ==
    /\ SameShape
    /\ Len(issued) = 2
    /\ issued[2].stmt.table = "links"
    /\ excludeColumns = << >>

\* C7: a statement for a chunk of same-shape records has recordsInChunk rows
\* of columnCount placeholders and recordsInChunk x columnCount bound values,
\* the value at (r, j) being the one extracted from the chunk's r-th record
\* for the field of the j-th column.
C7_RecordMajor ==
    SameShape =>
      \A k \in 1..Len(issued) :
        LET st == issued[k].stmt
            objs == ChunkOf(k)
            n == Len(st.columns)
        IN /\ Len(st.placeholders) = Len(objs)
           /\ \A r \in 1..Len(objs) : st.placeholders[r] = [ j \in 1..n |-> "?" ]
           /\ Len(st.vars) = Len(objs) * n
           /\ \A r \in 1..Len(objs) : \A j \in 1..n :
                LET f == FieldOfColumn(objs[r].type, st.columns[j])
                    v == st.vars[(r - 1) * n + j]
                IN /\ v = attrValue(objs[r], f, issued[k].at)
                   /\ v.kind = "user" => v.id = objs[r].id /\ v.f = f.Name
                   /\ v.kind = "default" => v.f = f.DefaultTag

\* A statement of three rows of link records, the second with its defaults unset.
C7_Witness ==
    /\ SameShape
    /\ Len(issued) >= 1
    /\ Len(issued[1].stmt.placeholders) = 3
    /\ issued[1].stmt.table = "links"
    /\ ChunkOf(1)[2].blank
    /\ ~ChunkOf(1)[1].blank

\* The columns of the struct type's primary-key and unique fields.
KeyColumns(typ) ==
    { ToColumnName(g.DBName) :
        g \in { h \in Range(Fields(typ)) :
                  h.IsPrimaryKey \/ h.IsUnique \/ h.HasUniqueIndex } }

\* C8: in every statement the names updated by the conflict clause are the
\* names of the INSERT column list less the primary-key and unique columns,
\* each col=VALUES(col) under the name the column list uses, and the clause is
\* there exactly when that set is not empty.
C8_ConflictClause ==
    \A k \in 1..Len(issued) :
      LET st == issued[k].stmt
          updated == Range(st.columns) \ KeyColumns(ChunkOf(k)[1].type)
      IN /\ { d.lhs : d \in Range(st.duplicates) } = updated
         /\ \A d \in Range(st.duplicates) : d.lhs = d.rhs
         /\ st.onDuplicate <=> updated # {}

\* C9: a CreatedAt or UpdatedAt field of a record is bound to the time read
\* while its statement is built, never to the value the caller supplied, in
\* every row of every statement.
C9_Timestamps ==
    \A k \in 1..Len(issued) :
      LET st == issued[k].stmt
          objs == ChunkOf(k)
          n == Len(st.columns)
      IN /\ \A v \in Range(st.vars) :
              /\ v.kind = "user" => v.f \notin { nCreatedAt, nUpdatedAt }
              /\ v.kind = "now" => v.id = issued[k].at
         /\ \A r \in 1..Len(objs) :
              \A g \in KeptFields(objs[r].type) :
                g.Name \in { nCreatedAt, nUpdatedAt } =>
                  st.vars[(r - 1) * n + Rank(objs[r].type, g.DBName) + 1]
                    = NowValue(issued[k].at)

\* A second statement with timestamps, built after the clock has advanced.
C9_Witness ==
    /\ Len(issued) = 2
    /\ issued[1].at = 0
    /\ issued[2].at = 1
    /\ issued[2].stmt.table = "fake_tables"
    /\ \E v \in Range(issued[2].stmt.vars) : v = NowValue(1)

====
